---- MODULE Spec2Model ----
(***************************************************************************)
(* A model of swaparr's strike accounting: queue::get, queue::process,     *)
(* queue::delete (src/src/queue.rs) and parser::string_hms_to_ms           *)
(* (src/src/parser.rs).                                                    *)
(*                                                                         *)
(* Strings that the code parses are sequences of one-character strings.    *)
(* Sizes are counted in units of 10^6 bytes (the 50 GB of the documented   *)
(* scenario does not fit TLC's 32-bit integers); the code only compares    *)
(* sizes, so the unit does not change any decision.                        *)
(***************************************************************************)
EXTENDS Integers, Sequences, FiniteSets, TLC

VARIABLES
    env,            \* system::Envs: the configuration, fixed for the process lifetime
    strikelist,     \* the HashMap<u32, u32> owned by the run loop
    pc,             \* position of the run loop: "idle", "fetched", "processed"
    queue_items,    \* the Vec<Torrent> returned by get and handed to process
    table_contents, \* the rows process built for render::table in the last run
    deletes,        \* the calls of delete made by the last run, in order
    alerts,         \* the WARN alerts logged since the run began
    trail,          \* the strikelist before the run and after each item (bookkeeping)
    history,        \* per id, what the runs since the start did with it (bookkeeping)
    failed,         \* ids whose delete call failed: .last in the most recent run,
                    \* .earlier in the run before it (bookkeeping)
    eligible,       \* per id, the qualifying runs and items before this run (bookkeeping)
    track,          \* which bookkeeping is kept: a subset of
                    \* {"history", "failed", "eligible"}
    hms_parts,      \* the fields and separators an HMS input was put together from
    hms_string,     \* the input handed to string_hms_to_ms
    hms_result      \* what string_hms_to_ms returned, NotCalled before the call

vars == <<env, strikelist, pc, queue_items, table_contents, deletes, alerts,
          trail, history, failed, eligible, track, hms_parts, hms_string,
          hms_result>>

(***************************************************************************)
(* Bounds of the model.                                                    *)
(***************************************************************************)
MaxQueue == 2      \* items in one snapshot
MaxStrikes == 2    \* largest configured strike_threshold
MaxExtra == 1      \* runs of a streak followed past the strike_threshold
MaxFields == 5     \* fields of an HMS input

Min(a, b) == IF a < b THEN a ELSE b
Max(a, b) == IF a > b THEN a ELSE b

(***************************************************************************)
(* parser.rs                                                               *)
(***************************************************************************)
Digits == {"0", "1", "2", "3", "4", "5", "6", "7", "8", "9"}

DigitValue(c) ==
    CASE c = "0" -> 0 [] c = "1" -> 1 [] c = "2" -> 2 [] c = "3" -> 3
      [] c = "4" -> 4 [] c = "5" -> 5 [] c = "6" -> 6 [] c = "7" -> 7
      [] c = "8" -> 8 [] c = "9" -> 9

\* str::split(|c| c == ':' || c == '.'): the fields between the separators,
\* empty fields kept; the empty string has one (empty) field.
RECURSIVE SplitHms(_, _, _)
SplitHms(string, i, parts) ==
    IF i > Len(string) THEN parts
    ELSE IF string[i] = ":" \/ string[i] = "."
         THEN SplitHms(string, i + 1, Append(parts, <<>>))
         ELSE SplitHms(string, i + 1,
                  [parts EXCEPT ![Len(parts)] = Append(@, string[i])])

RECURSIVE DecimalValue(_, _, _)
DecimalValue(field, i, acc) ==
    IF i > Len(field) THEN acc
    ELSE DecimalValue(field, i + 1, acc * 10 + DigitValue(field[i]))

\* str::parse::<u64>(): Ok for an optional '+' followed by one or more ASCII
\* digits, Err otherwise. (A value above u64::MAX is Err too; the inputs of
\* this model stay far below it.)
ParseU64(field) ==
    LET body == IF Len(field) > 0 /\ field[1] = "+" THEN Tail(field) ELSE field
    IN IF Len(body) > 0 /\ \A i \in 1..Len(body) : body[i] \in Digits
       THEN [ok |-> TRUE, value |-> DecimalValue(body, 1, 0)]
       ELSE [ok |-> FALSE, value |-> 0]

\* parts[i].parse().unwrap_or_else(|_| 0)
ParseOrZero(field) ==
    LET r == ParseU64(field) IN IF r.ok THEN r.value ELSE 0

\* The match and the sum with a slip: an input of fewer than 3 fields stands
\* for a time that is never reached.
HmsOfParts_ShortIsForever(parts) ==
    IF Len(parts) < 3 THEN 2000000000
    ELSE IF Len(parts) = 3
         THEN ((0 * 24 + ParseOrZero(parts[1])) * 3600
               + ParseOrZero(parts[2]) * 60 + ParseOrZero(parts[3])) * 1000
    ELSE IF Len(parts) = 4
         THEN ((ParseOrZero(parts[1]) * 24 + ParseOrZero(parts[2])) * 3600
               + ParseOrZero(parts[3]) * 60 + ParseOrZero(parts[4])) * 1000
    ELSE 0

\* The match on parts.len() and the sum, for the fields of the input.
HmsOfParts(parts) ==
    IF Len(parts) < 3 THEN 0
    ELSE IF Len(parts) = 3
         THEN ((0 * 24 + ParseOrZero(parts[1])) * 3600
               + ParseOrZero(parts[2]) * 60 + ParseOrZero(parts[3])) * 1000
    ELSE IF Len(parts) = 4
         THEN ((ParseOrZero(parts[1]) * 24 + ParseOrZero(parts[2])) * 3600
               + ParseOrZero(parts[3]) * 60 + ParseOrZero(parts[4])) * 1000
    ELSE 0

\* string_hms_to_ms with a slip: one unparsable field zeroes the whole result.
string_hms_to_ms_AnyBadFieldZero(string) ==
    IF \E i \in 1..Len(SplitHms(string, 1, << <<>> >>)) :
          ~ParseU64(SplitHms(string, 1, << <<>> >>)[i]).ok
    THEN 0
    ELSE HmsOfParts(SplitHms(string, 1, << <<>> >>))

string_hms_to_ms(string) == HmsOfParts(SplitHms(string, 1, << <<>> >>))

\* string.parse::<ByteSize>() of the bytesize crate, for the configuration
\* values of this model, in units of 10^6 bytes; Err(_) => 0.
string_bytesize_to_bytes(string) ==
    CASE string = "50 GB" -> 50000
      [] string = "1 GB" -> 1000
      [] OTHER -> 0

(***************************************************************************)
(* The values the model draws from.                                        *)
(***************************************************************************)
Ids == {1, 2}

\* Record.size (f64), in units of 10^6 bytes.
Sizes == {1000, 50000}

\* Option<String>: <<>> is None, <<s>> is Some(s).
None == <<>>
Some(s) == <<s>>

HalfHour == <<"0", "0", ":", "3", "0", ":", "0", "0">>
OneHour == <<"0", "1", ":", "0", "0", ":", "0", "0">>
TwoHours == <<"0", "2", ":", "0", "0", ":", "0", "0">>
Unparsable == <<"1", "h">>
ZeroTime == <<"0", "0", ":", "0", "0", ":", "0", "0">>

\* string_hms_to_ms, worked out once for each string the program meets here
\* instead of once for every call.
KnownHms == {<<"0">>, HalfHour, OneHour, TwoHours, Unparsable, ZeroTime}
HmsValues == [string \in KnownHms |-> string_hms_to_ms(string)]
CallHmsToMs(string) ==
    IF string \in KnownHms THEN HmsValues[string] ELSE string_hms_to_ms(string)

Timelefts == {None, Some(HalfHour), Some(TwoHours)}
Records == [id : Ids, size : Sizes, timeleft : Timelefts]

RECURSIVE SeqsUpTo(_, _)
SeqsUpTo(S, n) ==
    IF n = 0 THEN {<<>>}
    ELSE LET shorter == SeqsUpTo(S, n - 1)
         IN shorter \cup {Append(q, x) : q \in {r \in shorter : Len(r) = n - 1}, x \in S}

\* The record lists a well-formed response can carry.
Snapshots == SeqsUpTo(Records, MaxQueue)

\* What the request of get can produce: a well-formed response, a response
\* that is not the expected JSON, or no response at all.
Ok(records) == [kind |-> "ok", records |-> records]
InvalidJson == [kind |-> "invalid_json", records |-> <<>>]
Unreachable == [kind |-> "unreachable", records |-> <<>>]

InvalidAlert == "Unable to process queue: The API has responded with an invalid response."
UnreachableAlert == "Unable to process queue: The connection to the API was unsuccessful."
DeleteAlert == "Failed to remove torrent: The API has refused this request."

Envs == [strike_threshold : 0..MaxStrikes,
         time_threshold : {OneHour},
         size_threshold : {"50 GB"},
         aggresive_strikes : BOOLEAN]

Statuses == {"Normal", "Pending", "Ignored", "Striked", "Removed"}

(***************************************************************************)
(* queue.rs: get                                                           *)
(***************************************************************************)
\* record.size as u64: the cast saturates at 0.
F64AsU64(x) == IF x < 0 THEN 0 ELSE x

\* The Torrent of one record (the name plays no part in the decisions).
TorrentOf(record) ==
    LET timeleft == IF record.timeleft = None THEN <<"0">> ELSE record.timeleft[1]
        timeleft_ms == CallHmsToMs(timeleft)
    IN [id |-> record.id, size |-> F64AsU64(record.size), eta |-> timeleft_ms]

\* The torrents of a record list.
Torrents(records) == [i \in 1..Len(records) |-> TorrentOf(records[i])]

\* get with a slip: a failed request hands back one placeholder torrent.
get_PlaceholderOnFailure(resp) ==
    IF resp.kind = "ok"
    THEN [torrents |-> Torrents(resp.records), alerts |-> <<>>]
    ELSE [torrents |-> <<[id |-> 1, size |-> 0, eta |-> 0]>>,
          alerts |-> IF resp.kind = "invalid_json" THEN <<InvalidAlert>>
                     ELSE <<UnreachableAlert>>]

\* get: the torrents it returns and the alerts it logs.
get(resp) ==
    IF resp.kind = "ok"
    THEN [torrents |-> Torrents(resp.records), alerts |-> <<>>]
    ELSE IF resp.kind = "invalid_json"
         THEN [torrents |-> Torrents(<<>>), alerts |-> <<InvalidAlert>>]
         ELSE [torrents |-> Torrents(<<>>), alerts |-> <<UnreachableAlert>>]

(***************************************************************************)
(* queue.rs: delete                                                        *)
(***************************************************************************)
\* The alerts of one delete call whose request ended ok or not.
delete(id, ok) ==
    IF ok THEN <<>> ELSE <<DeleteAlert>>

(***************************************************************************)
(* queue.rs: process                                                       *)
(***************************************************************************)
\* HashMap::insert
Insert(map, k, v) ==
    [x \in DOMAIN map \cup {k} |-> IF x = k THEN v ELSE map[x]]

\* The bypass rules with a slip: the size rule is an else-branch of the eta rule.
BypassRules_FirstMatchWins(torrent, e) ==
    LET pending == torrent.eta = 0 /\ ~e.aggresive_strikes
        size_threshold_bytes == string_bytesize_to_bytes(e.size_threshold)
    IN IF pending THEN [status |-> "Pending", bypass |-> TRUE]
       ELSE IF torrent.size >= size_threshold_bytes
            THEN [status |-> "Ignored", bypass |-> TRUE]
            ELSE [status |-> "Normal", bypass |-> FALSE]

\* The bypass rules with a slip: the size rule compares with > instead of >=.
BypassRules_StrictSize(torrent, e) ==
    LET pending == torrent.eta = 0 /\ ~e.aggresive_strikes
        size_threshold_bytes == string_bytesize_to_bytes(e.size_threshold)
        ignored == torrent.size > size_threshold_bytes
    IN [status |-> IF ignored THEN "Ignored" ELSE IF pending THEN "Pending" ELSE "Normal",
        bypass |-> pending \/ ignored]

\* The bypass rules: two independent ifs, the second overwrites the status.
BypassRules(torrent, e) ==
    LET s1 == IF torrent.eta = 0 /\ ~e.aggresive_strikes
              THEN [status |-> "Pending", bypass |-> TRUE]
              ELSE [status |-> "Normal", bypass |-> FALSE]
        size_threshold_bytes == string_bytesize_to_bytes(e.size_threshold)
    IN IF torrent.size >= size_threshold_bytes
       THEN [status |-> "Ignored", bypass |-> TRUE]
       ELSE s1

\* The strike condition with a slip: the comparison is turned around.
StrikeCondition_BelowThreshold(torrent, e) ==
    LET time_threshold_ms == CallHmsToMs(e.time_threshold)
    IN (torrent.eta <= time_threshold_ms) \/ (torrent.eta = 0 /\ e.aggresive_strikes)

\* The strike condition with a slip: the aggressive_strikes case is missing.
StrikeCondition_OnlyThreshold(torrent, e) ==
    LET time_threshold_ms == CallHmsToMs(e.time_threshold)
    IN torrent.eta >= time_threshold_ms

\* The strike condition.
StrikeCondition(torrent, e) ==
    LET time_threshold_ms == CallHmsToMs(e.time_threshold)
    IN (torrent.eta >= time_threshold_ms) \/ (torrent.eta = 0 /\ e.aggresive_strikes)

\* The strike rule with a slip: the cap is tested with <= instead of <.
StrikeRule_IncrementAtCap(hit, strikes0, e) ==
    IF hit
    THEN [strikes |-> IF strikes0 <= e.strike_threshold THEN strikes0 + 1 ELSE strikes0,
          written |-> strikes0 <= e.strike_threshold,
          status |-> "Striked"]
    ELSE [strikes |-> strikes0, written |-> FALSE, status |-> "Normal"]

\* The strike rule with a slip: the cap is not tested at all.
StrikeRule_NoCap(hit, strikes0, e) ==
    IF hit
    THEN [strikes |-> strikes0 + 1, written |-> TRUE, status |-> "Striked"]
    ELSE [strikes |-> strikes0, written |-> FALSE, status |-> "Normal"]

\* The strike rule with a slip: a strike that is allowed counts twice.
StrikeRule_StrikesTwice(hit, strikes0, e) ==
    IF hit
    THEN [strikes |-> IF strikes0 < e.strike_threshold THEN strikes0 + 2 ELSE strikes0,
          written |-> strikes0 < e.strike_threshold,
          status |-> "Striked"]
    ELSE [strikes |-> strikes0, written |-> FALSE, status |-> "Normal"]

\* The strike rule of one item that is not bypassed, given whether it meets
\* the strike condition: the strike count, whether it is written to the
\* strikelist, and the status.
StrikeRule(hit, strikes0, e) ==
    IF hit
    THEN [strikes |-> IF strikes0 < e.strike_threshold THEN strikes0 + 1 ELSE strikes0,
          written |-> strikes0 < e.strike_threshold,
          status |-> "Striked"]
    ELSE [strikes |-> strikes0, written |-> FALSE, status |-> "Normal"]

\* The removal rule with a slip: delete is called only in the run that wrote
\* the last strike.
RemovalRule_OnlyWhenWritten(s, e) ==
    IF s.strikes >= e.strike_threshold /\ s.written
    THEN [strikes |-> s.strikes, written |-> s.written, status |-> "Removed",
          remove |-> TRUE]
    ELSE [strikes |-> s.strikes, written |-> s.written, status |-> s.status,
          remove |-> FALSE]

\* The removal rule with a slip: the run that writes the last strike is a
\* grace run, delete is called from the next run on.
RemovalRule_GraceRun(s, e) ==
    IF s.strikes >= e.strike_threshold /\ ~s.written
    THEN [strikes |-> s.strikes, written |-> s.written, status |-> "Removed",
          remove |-> TRUE]
    ELSE [strikes |-> s.strikes, written |-> s.written, status |-> s.status,
          remove |-> FALSE]

\* The removal rule with a slip: the threshold is tested with > instead of >=.
RemovalRule_StrictlyAbove(s, e) ==
    IF s.strikes > e.strike_threshold
    THEN [strikes |-> s.strikes, written |-> s.written, status |-> "Removed",
          remove |-> TRUE]
    ELSE [strikes |-> s.strikes, written |-> s.written, status |-> s.status,
          remove |-> FALSE]

\* The removal rule, after the strike rule: whether delete is called, and the
\* final status.
RemovalRule(s, e) ==
    IF s.strikes >= e.strike_threshold
    THEN [strikes |-> s.strikes, written |-> s.written, status |-> "Removed",
          remove |-> TRUE]
    ELSE [strikes |-> s.strikes, written |-> s.written, status |-> s.status,
          remove |-> FALSE]

StrikeRules(torrent, strikes0, e) ==
    RemovalRule(StrikeRule(StrikeCondition(torrent, e), strikes0, e), e)

\* The decision with a slip: the removal rule is applied to bypassed items too.
Decision_RemoveBypassed(torrent, strikes0, e, rule) ==
    IF rule.bypass
    THEN RemovalRule([strikes |-> strikes0, written |-> FALSE, status |-> rule.status], e)
    ELSE StrikeRules(torrent, strikes0, e)

\* The decision with a slip: the strike rules are applied to bypassed items too,
\* which keep their status.
Decision_StrikeBypassed(torrent, strikes0, e, rule) ==
    IF rule.bypass
    THEN [strikes |-> StrikeRules(torrent, strikes0, e).strikes,
          written |-> StrikeRules(torrent, strikes0, e).written,
          status |-> rule.status,
          remove |-> FALSE]
    ELSE StrikeRules(torrent, strikes0, e)

\* What one iteration decides: the bypass rules, then the strike rules.
Decision(torrent, strikes0, e, rule) ==
    IF rule.bypass
    THEN [strikes |-> strikes0, written |-> FALSE, status |-> rule.status,
          remove |-> FALSE]
    ELSE StrikeRules(torrent, strikes0, e)

\* The lookup with a slip: a new id is read as 0 but gets no entry.
Lookup_NoInsert(list, id) ==
    IF id \in DOMAIN list
    THEN [strikes |-> list[id], list |-> list]
    ELSE [strikes |-> 0, list |-> list]

\* strikelist.get(&id), with the insert of 0 for a new id.
Lookup(list, id) ==
    IF id \in DOMAIN list
    THEN [strikes |-> list[id], list |-> list]
    ELSE [strikes |-> 0, list |-> Insert(list, id, 0)]

\* The effects with a slip: a strike is kept only if the delete call it leads
\* to goes through.
Effects_FailedDeleteUndoesStrike(st, id, e, list0, d, ok) ==
    [strikelist |-> IF d.written /\ (~d.remove \/ ok)
                    THEN Insert(list0, id, d.strikes) ELSE list0,
     table_contents |-> Append(st.table_contents,
                               [strikes |-> <<d.strikes, e.strike_threshold>>,
                                status |-> d.status]),
     deletes |-> IF d.remove
                 THEN Append(st.deletes,
                             [id |-> id, item |-> Len(st.table_contents) + 1, ok |-> ok])
                 ELSE st.deletes,
     alerts |-> IF d.remove THEN st.alerts \o delete(id, ok) ELSE st.alerts,
     trail |-> Append(st.trail,
                      IF d.written /\ (~d.remove \/ ok)
                      THEN Insert(list0, id, d.strikes) ELSE list0)]

\* The effects with a slip: a delete request starts the count of the id anew.
Effects_RemovedResetsStrikes(st, id, e, list0, d, ok) ==
    [strikelist |-> IF d.remove THEN Insert(list0, id, 0)
                    ELSE IF d.written THEN Insert(list0, id, d.strikes) ELSE list0,
     table_contents |-> Append(st.table_contents,
                               [strikes |-> <<d.strikes, e.strike_threshold>>,
                                status |-> d.status]),
     deletes |-> IF d.remove
                 THEN Append(st.deletes,
                             [id |-> id, item |-> Len(st.table_contents) + 1, ok |-> ok])
                 ELSE st.deletes,
     alerts |-> IF d.remove THEN st.alerts \o delete(id, ok) ELSE st.alerts,
     trail |-> Append(st.trail,
                      IF d.remove THEN Insert(list0, id, 0)
                      ELSE IF d.written THEN Insert(list0, id, d.strikes) ELSE list0)]

\* The effects with a slip: the strike is written under the position of the
\* item in the snapshot instead of under its id.
Effects_KeyByPosition(st, id, e, list0, d, ok) ==
    [strikelist |-> IF d.written
                    THEN Insert(list0, Len(st.table_contents) + 1, d.strikes)
                    ELSE list0,
     table_contents |-> Append(st.table_contents,
                               [strikes |-> <<d.strikes, e.strike_threshold>>,
                                status |-> d.status]),
     deletes |-> IF d.remove
                 THEN Append(st.deletes,
                             [id |-> id, item |-> Len(st.table_contents) + 1, ok |-> ok])
                 ELSE st.deletes,
     alerts |-> IF d.remove THEN st.alerts \o delete(id, ok) ELSE st.alerts,
     trail |-> Append(st.trail,
                      IF d.written
                      THEN Insert(list0, Len(st.table_contents) + 1, d.strikes)
                      ELSE list0)]

\* The state of the run after an iteration that decided d for the torrent;
\* ok tells whether the request of its delete call (if any) goes through.
Effects(st, id, e, list0, d, ok) ==
    [strikelist |-> IF d.written THEN Insert(list0, id, d.strikes) ELSE list0,
     table_contents |-> Append(st.table_contents,
                               [strikes |-> <<d.strikes, e.strike_threshold>>,
                                status |-> d.status]),
     deletes |-> IF d.remove
                 THEN Append(st.deletes,
                             [id |-> id, item |-> Len(st.table_contents) + 1, ok |-> ok])
                 ELSE st.deletes,
     alerts |-> IF d.remove THEN st.alerts \o delete(id, ok) ELSE st.alerts,
     trail |-> Append(st.trail,
                      IF d.written THEN Insert(list0, id, d.strikes) ELSE list0)]

ItemStep(st, torrent, e, net, found) ==
    Effects(st, torrent.id, e, found.list,
            Decision(torrent, found.strikes, e, BypassRules(torrent, e)),
            net[Len(st.deletes) + 1])

\* One iteration of the loop of process. st is the state of the run so far;
\* net[k] tells whether the request of the k-th delete call of the run goes through.
ProcessItem(st, torrent, e, net) ==
    ItemStep(st, torrent, e, net, Lookup(st.strikelist, torrent.id))

RECURSIVE ProcessFrom(_, _, _, _, _)
ProcessFrom(st, items, i, e, net) ==
    IF i > Len(items) THEN st
    ELSE ProcessFrom(ProcessItem(st, items[i], e, net), items, i + 1, e, net)

process(items, list, e, net) ==
    ProcessFrom([strikelist |-> list, table_contents |-> <<>>, deletes |-> <<>>,
                 alerts |-> <<>>, trail |-> <<list>>],
                items, 1, e, net)

AllOk(items) == [k \in 1..Len(items) |-> TRUE]

(***************************************************************************)
(* Bookkeeping for the claims about sequences of runs. It never feeds back *)
(* into the program's state.                                               *)
(***************************************************************************)
Untracked == 0 - 1

\* The item is not bypassed and meets the strike condition, in the words of
\* the documentation.
Qualifies(torrent, e) ==
    /\ ~(torrent.eta = 0 /\ ~e.aggresive_strikes)
    /\ torrent.size < string_bytesize_to_bytes(e.size_threshold)
    /\ \/ torrent.eta >= CallHmsToMs(e.time_threshold)
       \/ torrent.eta = 0 /\ e.aggresive_strikes

Occurrences(items, id) == {i \in 1..Len(items) : items[i].id = id}

\* history[id].streak: 0 while the id has never been seen; k >= 1 when it was
\* seen in exactly k runs, these were consecutive, and in each of them the id
\* was listed once, with an item that qualifies; Untracked otherwise, and
\* once the streak is longer than strike_threshold + MaxExtra.
\* history[id].removed: the number of runs of the streak that reported Removed.
NextHistory(h, id, items, rows, e) ==
    LET occ == Occurrences(items, id)
        i == CHOOSE x \in occ : TRUE
        good == Cardinality(occ) = 1 /\ Qualifies(items[i], e)
        streak == IF h.streak = 0 /\ occ = {} THEN 0
                  ELSE IF h.streak >= 0 /\ good
                          /\ h.streak < e.strike_threshold + MaxExtra
                       THEN h.streak + 1
                       ELSE Untracked
    IN [streak |-> streak,
        removed |-> IF streak <= 0 THEN 0
                    ELSE h.removed + (IF rows[i].status = "Removed" THEN 1 ELSE 0)]

\* The items of the id that qualify, among the first n of the snapshot.
QualifyingUpTo(items, id, n, e) ==
    {i \in Occurrences(items, id) : i <= n /\ Qualifies(items[i], e)}

\* eligible[id], once the run on items is over. runs: the runs so far in which
\* an item of the id qualified; items: the qualifying items of the id so far;
\* both are counted up to strike_threshold only.
NextEligible(g, id, items, e) ==
    [runs |-> Min(e.strike_threshold,
                  g.runs + (IF QualifyingUpTo(items, id, Len(items), e) # {}
                            THEN 1 ELSE 0)),
     items |-> Min(e.strike_threshold,
                   g.items + Cardinality(QualifyingUpTo(items, id, Len(items), e)))]

(***************************************************************************)
(* The run loop: get, process, sleep.                                      *)
(***************************************************************************)
NoneFailed == [last |-> {}, earlier |-> {}]
NoneEligible == [id \in Ids |-> [runs |-> 0, items |-> 0]]
NoParse == [fields |-> <<>>, seps |-> <<>>]
NotCalled == [called |-> FALSE, value |-> 0]

\* The state after construction: an empty strikelist, no run made yet.
Start(envs, tracked) ==
    /\ env \in envs
    /\ strikelist = <<>>
    /\ pc = "idle"
    /\ queue_items = <<>>
    /\ table_contents = <<>>
    /\ deletes = <<>>
    /\ alerts = <<>>
    /\ trail = <<>>
    /\ history = [id \in Ids |-> [streak |-> 0, removed |-> 0]]
    /\ failed = NoneFailed
    /\ eligible = NoneEligible
    /\ track = tracked
    /\ hms_parts = NoParse
    /\ hms_string = <<>>
    /\ hms_result = NotCalled

Init == Start(Envs, {})

Fetched(got) ==
    /\ queue_items' = got.torrents
    /\ alerts' = got.alerts

Get(resp) ==
    /\ pc = "idle"
    /\ Fetched(get(resp))
    /\ pc' = "fetched"
    /\ UNCHANGED <<env, strikelist, table_contents, deletes, trail, history, failed,
                   eligible, track, hms_parts, hms_string, hms_result>>

GetOk == pc = "idle" /\ \E records \in Snapshots : Get(Ok(records))
GetInvalidJson == pc = "idle" /\ Get(InvalidJson)
GetUnreachable == pc = "idle" /\ Get(Unreachable)

\* The results of process as the run leaves them, and the bookkeeping.
Finish(r) ==
    /\ strikelist' = r.strikelist
    /\ table_contents' = r.table_contents
    /\ deletes' = r.deletes
    /\ alerts' = alerts \o r.alerts
    /\ trail' = r.trail
    /\ history' = IF "history" \in track
                   THEN [id \in Ids |->
                           NextHistory(history[id], id, queue_items,
                                       r.table_contents, env)]
                   ELSE history
    /\ failed' = IF "failed" \in track
                  THEN [last |-> {r.deletes[k].id :
                                    k \in {j \in 1..Len(r.deletes) : ~r.deletes[j].ok}},
                        earlier |-> failed.last]
                  ELSE failed

\* Every way the requests of the delete calls of the run can end. smooth is the
\* run in which they all go through; it makes as many calls as any other.
ProcessWith(smooth) ==
    \E net \in [1..Len(smooth.deletes) -> BOOLEAN] :
        Finish(IF \A k \in DOMAIN net : net[k]
               THEN smooth
               ELSE process(queue_items, strikelist, env, net))

Process ==
    /\ pc = "fetched"
    /\ ProcessWith(process(queue_items, strikelist, env, AllOk(queue_items)))
    /\ pc' = "processed"
    /\ UNCHANGED <<env, queue_items, eligible, track, hms_parts, hms_string,
                   hms_result>>

\* The run is over: its locals are dropped, the strikelist stays.
Sleep ==
    /\ pc = "processed"
    /\ pc' = "idle"
    /\ queue_items' = <<>>
    /\ table_contents' = <<>>
    /\ deletes' = <<>>
    /\ alerts' = <<>>
    /\ trail' = <<>>
    /\ failed' = [last |-> failed.last, earlier |-> {}]
    /\ eligible' = IF "eligible" \in track
                    THEN [id \in Ids |-> NextEligible(eligible[id], id, queue_items, env)]
                    ELSE eligible
    /\ UNCHANGED <<env, strikelist, history, track, hms_parts, hms_string, hms_result>>

Next == GetOk \/ GetInvalidJson \/ GetUnreachable \/ Process \/ Sleep

Spec == Init /\ [][Next]_vars

\* The same program with the bookkeeping of the streaks of runs kept.
StreakInit == Start(Envs, {"history"})
StreakSpec == StreakInit /\ [][Next]_vars

\* The same program with the bookkeeping of the failed delete calls kept.
RetryInit == Start(Envs, {"failed"})
RetrySpec == RetryInit /\ [][Next]_vars

\* The documented scenario: time_threshold 1h, size_threshold 50 GB,
\* strike_threshold 3, aggressive_strikes false.
ScenarioEnv == [strike_threshold |-> 3, time_threshold |-> OneHour,
                size_threshold |-> "50 GB", aggresive_strikes |-> FALSE]
ScenarioInit == Start({ScenarioEnv}, {"history"})
ScenarioSpec == ScenarioInit /\ [][Next]_vars

\* The same program in aggressive mode, with a time_threshold an item with
\* eta 0 does not reach and one that it does.
AggressiveEnvs == [strike_threshold : 0..MaxStrikes,
                   time_threshold : {OneHour, Unparsable},
                   size_threshold : {"50 GB"},
                   aggresive_strikes : {TRUE}]
AggressiveInit == Start(AggressiveEnvs, {})
AggressiveSpec == AggressiveInit /\ [][Next]_vars

\* The same program with a time_threshold of 0 ms, written as such or unparsable.
ZeroEnvs == [strike_threshold : 0..MaxStrikes,
             time_threshold : {ZeroTime, Unparsable},
             size_threshold : {"50 GB"},
             aggresive_strikes : BOOLEAN]
ZeroInit == Start(ZeroEnvs, {})
ZeroSpec == ZeroInit /\ [][Next]_vars

\* The same program fed with snapshots of pairwise distinct ids only, out of
\* three ids, of every length these allow. An item of size >= size_threshold is
\* Ignored whatever its timeleft, so it comes with one timeleft only. The
\* strike_threshold is one that is reached at once or one that takes two strikes.
OrderIds == {1, 2, 3}
OrderEnvs == [strike_threshold : {1, 2},
              time_threshold : {OneHour},
              size_threshold : {"50 GB"},
              aggresive_strikes : BOOLEAN]
OrderRecords ==
    {record \in [id : OrderIds, size : Sizes, timeleft : Timelefts] :
        F64AsU64(record.size) < string_bytesize_to_bytes("50 GB")
            \/ record.timeleft = Some(TwoHours)}
DistinctIds(records) ==
    \A i, j \in 1..Len(records) : i # j => records[i].id # records[j].id
OrderSnapshots ==
    {records \in SeqsUpTo(OrderRecords, Cardinality(OrderIds)) : DistinctIds(records)}
GetDistinct == pc = "idle" /\ \E records \in OrderSnapshots : Get(Ok(records))
OrderNext == GetDistinct \/ GetInvalidJson \/ GetUnreachable \/ Process \/ Sleep
OrderInit == Start(OrderEnvs, {})
OrderSpec == OrderInit /\ [][OrderNext]_vars

\* The same program with the bookkeeping of the qualifying runs kept.
SlownessInit == Start(Envs, {"eligible"})
SlownessSpec == SlownessInit /\ [][Next]_vars

(***************************************************************************)
(* string_hms_to_ms on its own: every input put together from at most      *)
(* MaxFields fields of HmsFields, joined by ':' or '.'.                    *)
(***************************************************************************)
\* A field, whether it is a number, and the number it stands for.
HmsFields ==
    {[text |-> <<>>, numeric |-> FALSE, value |-> 0],
     [text |-> <<"7">>, numeric |-> TRUE, value |-> 7],
     [text |-> <<"1", "2">>, numeric |-> TRUE, value |-> 12],
     [text |-> <<"+", "3">>, numeric |-> TRUE, value |-> 3],
     [text |-> <<"x">>, numeric |-> FALSE, value |-> 0]}

HmsInputs ==
    UNION {[fields : [1..n -> HmsFields], seps : [1..(n - 1) -> {":", "."}]] :
             n \in 1..MaxFields}

RECURSIVE JoinFrom(_, _)
JoinFrom(parts, i) ==
    IF i > Len(parts.fields) THEN <<>>
    ELSE (IF i = 1 THEN <<>> ELSE <<parts.seps[i - 1]>>)
         \o parts.fields[i].text \o JoinFrom(parts, i + 1)

ParseInit ==
    /\ env = [strike_threshold |-> 0, time_threshold |-> OneHour,
              size_threshold |-> "50 GB", aggresive_strikes |-> FALSE]
    /\ strikelist = <<>>
    /\ pc = "parser"
    /\ queue_items = <<>>
    /\ table_contents = <<>>
    /\ deletes = <<>>
    /\ alerts = <<>>
    /\ trail = <<>>
    /\ history = [id \in Ids |-> [streak |-> 0, removed |-> 0]]
    /\ failed = NoneFailed
    /\ eligible = NoneEligible
    /\ track = {}
    /\ hms_parts \in HmsInputs
    /\ hms_string = JoinFrom(hms_parts, 1)
    /\ hms_result = NotCalled

CallHms ==
    /\ pc = "parser"
    /\ ~hms_result.called
    /\ hms_result' = [called |-> TRUE, value |-> string_hms_to_ms(hms_string)]
    /\ UNCHANGED <<env, strikelist, pc, queue_items, table_contents, deletes, alerts,
                   trail, history, failed, eligible, track, hms_parts, hms_string>>

ParseNext == CallHms

ParseSpec == ParseInit /\ [][ParseNext]_vars

(***************************************************************************)
(* The claims. They speak of a finished run (pc = "processed"): item i of  *)
(* the snapshot is queue_items[i], its row is table_contents[i], the       *)
(* strikelist before it was processed is trail[i] and after it trail[i+1]. *)
(***************************************************************************)
Processed == pc = "processed"
Items == 1..Len(queue_items)

SizeThresholdBytes == string_bytesize_to_bytes(env.size_threshold)
TimeThresholdMs == CallHmsToMs(env.time_threshold)

Count(list, id) == IF id \in DOMAIN list THEN list[id] ELSE 0
Before(i) == Count(trail[i], queue_items[i].id)
After(i) == Count(trail[i + 1], queue_items[i].id)
Status(i) == table_contents[i].status
Reported(i) == table_contents[i].strikes[1]
Requested(i) == \E k \in 1..Len(deletes) : deletes[k].item = i /\ deletes[k].id = queue_items[i].id

ZeroEta(i) == queue_items[i].eta = 0 /\ ~env.aggresive_strikes
Oversized(i) == queue_items[i].size >= SizeThresholdBytes
Bypassed(i) == ZeroEta(i) \/ Oversized(i)
Eligible(i) ==
    \/ queue_items[i].eta >= TimeThresholdMs
    \/ queue_items[i].eta = 0 /\ env.aggresive_strikes

C5_SizeExemption ==
    Processed =>
        /\ \A i \in Items : Oversized(i) => After(i) = Before(i)
        /\ \A id \in Ids :
            (\A i \in Items : queue_items[i].id = id => Oversized(i))
                => Count(strikelist, id) = Count(trail[1], id)

C5_Witness ==
    /\ Processed
    /\ \E i \in Items :
        /\ Oversized(i) /\ Eligible(i) /\ ~ZeroEta(i)
        /\ Before(i) >= 1 /\ Before(i) < env.strike_threshold
        /\ After(i) = Before(i)

\* C6 as stated: an item with 0 < eta < time_threshold gets the status
\* Normal and its count is not changed.
C6_BelowThresholdNormal ==
    Processed =>
        \A i \in Items :
            (0 < queue_items[i].eta /\ queue_items[i].eta < TimeThresholdMs)
                => Status(i) = "Normal" /\ After(i) = Before(i)

\* C6, amended: an item with 0 < eta < time_threshold never has its count
\* changed; its status is Ignored when size >= size_threshold, otherwise
\* Removed (with a delete request) when its count is already
\* >= strike_threshold, and Normal in every other case.
C6_BelowThresholdUnchanged ==
    Processed =>
        \A i \in Items :
            (0 < queue_items[i].eta /\ queue_items[i].eta < TimeThresholdMs)
                => /\ After(i) = Before(i)
                   /\ Status(i) = (IF Oversized(i) THEN "Ignored"
                                   ELSE IF Before(i) >= env.strike_threshold THEN "Removed"
                                   ELSE "Normal")
                   /\ Requested(i) <=> (~Oversized(i) /\ Before(i) >= env.strike_threshold)

C6_Witness ==
    /\ Processed
    /\ env.strike_threshold >= 1
    /\ \E i, j \in Items :
        /\ 0 < queue_items[i].eta /\ queue_items[i].eta < TimeThresholdMs
        /\ ~Oversized(i) /\ Status(i) = "Removed"
        /\ 0 < queue_items[j].eta /\ queue_items[j].eta < TimeThresholdMs
        /\ ~Oversized(j) /\ Status(j) = "Normal"

\* C10: delete is requested for an item exactly when the item is not
\* bypassed and the strike count its row reports is >= strike_threshold, also
\* when the item does not meet the strike condition in this run; the row of
\* such an item says Removed, and a bypassed item gets no delete request
\* whatever its count.
C10_DeleteExactlyWhen ==
    Processed =>
        /\ Len(table_contents) = Len(queue_items)
        /\ \A k \in 1..Len(deletes) :
            deletes[k].item \in Items /\ deletes[k].id = queue_items[deletes[k].item].id
        /\ \A i \in Items :
            /\ Requested(i) <=> (~Bypassed(i) /\ Reported(i) >= env.strike_threshold)
            /\ Requested(i) => Status(i) = "Removed"
            /\ Reported(i) = After(i)
            /\ Cardinality({k \in 1..Len(deletes) : deletes[k].item = i}) <= 1

C10_Witness ==
    /\ Processed
    /\ env.strike_threshold >= 1
    /\ \E i, j \in Items :
        /\ ~Bypassed(i) /\ ~Eligible(i) /\ Requested(i) /\ Status(i) = "Removed"
        /\ Bypassed(j) /\ Reported(j) >= env.strike_threshold /\ ~Requested(j)

\* C2: an id that had no entry and then was listed once, with an item that is
\* not bypassed and meets the strike condition, in each of N consecutive
\* runs has the count min(N, strike_threshold) after the N-th run.
C2_StrikeAccumulation ==
    \A id \in Ids :
        history[id].streak >= 1
            => /\ id \in DOMAIN strikelist
               /\ strikelist[id] = Min(history[id].streak, env.strike_threshold)

C2_Witness ==
    \E id \in Ids :
        /\ Processed
        /\ env.strike_threshold >= 2
        /\ history[id].streak > env.strike_threshold
        /\ strikelist[id] = env.strike_threshold

\* C3 as stated: over such a streak of runs Removed is reported exactly once,
\* in the run in which the count first reaches strike_threshold.
C3_RemovedExactlyOnce ==
    \A id \in Ids :
        history[id].streak >= 1
            => history[id].removed
                 = (IF history[id].streak >= env.strike_threshold THEN 1 ELSE 0)

\* C3, amended: over such a streak of runs Removed is reported first in the
\* run in which the count first reaches strike_threshold, and again in every
\* later run of the streak: after N runs it has been reported
\* max(0, N - max(strike_threshold, 1) + 1) times.
C3_RemovedFromThresholdOn ==
    \A id \in Ids :
        history[id].streak >= 1
            => history[id].removed
                 = Max(0, history[id].streak - Max(env.strike_threshold, 1) + 1)

C3_Witness ==
    \E id \in Ids :
        /\ Processed
        /\ env.strike_threshold >= 1
        /\ history[id].streak = env.strike_threshold + 1
        /\ history[id].removed = 2

\* C4: in a streak of runs as in C2, the runs before the count reaches
\* strike_threshold report Striked and request no deletion; the run in which
\* it reaches strike_threshold and every later run report Removed and request
\* the deletion, the count staying at strike_threshold. In the documented
\* scenario the item {id 1, size 10^9 bytes, eta 7200000 ms} run 4 times gives
\* the counts 1, 2, 3, 3, the statuses Striked, Striked, Removed, Removed and
\* a deletion request in runs 3 and 4 only.
ScenarioItem == [id |-> 1, size |-> 1000, eta |-> 7200000]
ScenarioCounts == <<1, 2, 3, 3>>
ScenarioStatuses == <<"Striked", "Striked", "Removed", "Removed">>
ScenarioDeletes == <<FALSE, FALSE, TRUE, TRUE>>
ItemOf(id) == CHOOSE i \in Items : queue_items[i].id = id

C4_RemovedAgainEveryRun ==
    Processed =>
        \A id \in Ids :
            history[id].streak >= 1
                => /\ Status(ItemOf(id))
                        = (IF history[id].streak >= env.strike_threshold
                           THEN "Removed" ELSE "Striked")
                   /\ Requested(ItemOf(id)) <=> history[id].streak >= env.strike_threshold
                   /\ Reported(ItemOf(id)) = Min(history[id].streak, env.strike_threshold)
                   /\ strikelist[id] = Min(history[id].streak, env.strike_threshold)
                   /\ (env = ScenarioEnv /\ queue_items[ItemOf(id)] = ScenarioItem
                       /\ history[id].streak <= 4)
                        => /\ Reported(ItemOf(id)) = ScenarioCounts[history[id].streak]
                           /\ Status(ItemOf(id)) = ScenarioStatuses[history[id].streak]
                           /\ Requested(ItemOf(id)) = ScenarioDeletes[history[id].streak]

C4_Witness ==
    /\ Processed
    /\ env = ScenarioEnv
    /\ queue_items = <<ScenarioItem>>
    /\ history[1].streak = 4
    /\ history[1].removed = 2
    /\ table_contents = <<[strikes |-> <<3, 3>>, status |-> "Removed"]>>
    /\ Len(deletes) = 1 /\ deletes[1].id = 1

\* C7 as stated: the strikelist, the rows and the delete requests of a run
\* are the same whether its delete calls go through or fail; and an id whose
\* delete call failed and that is listed in the next snapshot gets a delete
\* request in the next run.
DeleteIds(calls) == [k \in 1..Len(calls) |-> calls[k].id]

SameAsWithoutFailures ==
    /\ strikelist = process(queue_items, trail[1], env, AllOk(queue_items)).strikelist
    /\ table_contents
         = process(queue_items, trail[1], env, AllOk(queue_items)).table_contents
    /\ DeleteIds(deletes)
         = DeleteIds(process(queue_items, trail[1], env, AllOk(queue_items)).deletes)

C7_RetriedWheneverListed ==
    Processed =>
        /\ SameAsWithoutFailures
        /\ \A id \in failed.earlier :
            Occurrences(queue_items, id) # {}
                => \E i \in Occurrences(queue_items, id) : Requested(i)

\* C7, amended: the strikelist, the rows and the delete requests of a run
\* are the same whether its delete calls go through or fail; and an id whose
\* delete call failed gets a delete request in the next run for every item
\* of the next snapshot that has this id and is not bypassed (no request is
\* made for an item that is Pending or Ignored in that run).
C7_RetriedUnlessBypassed ==
    Processed =>
        /\ SameAsWithoutFailures
        /\ \A id \in failed.earlier :
            \A i \in Occurrences(queue_items, id) :
                /\ ~Bypassed(i) => Requested(i)
                /\ Bypassed(i) => ~Requested(i)

C7_Witness ==
    /\ Processed
    /\ env.strike_threshold >= 1
    /\ \E id \in failed.earlier \cap failed.last :
        \E i \in Occurrences(queue_items, id) : ~Bypassed(i) /\ Requested(i)

\* C8: a failed fetch (no response, or a response that is not the expected
\* JSON) makes get return no torrents; and process on an empty snapshot
\* leaves the strikelist as it is, requests no deletion and builds no row.
FetchFailed ==
    \E k \in 1..Len(alerts) : alerts[k] \in {InvalidAlert, UnreachableAlert}

C8_FailedFetchIsEmptyRun ==
    /\ [](FetchFailed => queue_items = <<>>)
    /\ [][(pc = "fetched" /\ queue_items = <<>>)
            => (strikelist' = strikelist /\ deletes' = <<>> /\ table_contents' = <<>>
                /\ pc' = "processed")]_vars

C8_Witness ==
    /\ Processed
    /\ FetchFailed
    /\ queue_items = <<>>
    /\ \E id \in DOMAIN strikelist : strikelist[id] >= 1

\* C9 as stated: string_hms_to_ms returns 0 for fewer than 3 fields and for
\* every input with a field that is not a number; for 3 or 4 fields that are
\* all numbers it returns ((days*24+hours)*3600+minutes*60+seconds)*1000.
FieldCount == Len(hms_parts.fields)
FieldValue(i) == hms_parts.fields[i].value
AllNumeric == \A i \in 1..FieldCount : hms_parts.fields[i].numeric

\* The documented sum over the fields, a field that is not a number counting 0.
HmsSum ==
    IF FieldCount = 3
    THEN ((0 * 24 + FieldValue(1)) * 3600 + FieldValue(2) * 60 + FieldValue(3)) * 1000
    ELSE ((FieldValue(1) * 24 + FieldValue(2)) * 3600 + FieldValue(3) * 60
          + FieldValue(4)) * 1000

C9_AnyBadFieldZero ==
    hms_result.called =>
        /\ FieldCount < 3 => hms_result.value = 0
        /\ ~AllNumeric => hms_result.value = 0
        /\ (FieldCount \in {3, 4} /\ AllNumeric) => hms_result.value = HmsSum

\* C9, amended: string_hms_to_ms returns 0 for fewer than 3 and for more than
\* 4 fields; for 3 or 4 fields it returns
\* ((days*24+hours)*3600+minutes*60+seconds)*1000 with every field that is
\* not a number counted as 0, the other fields keeping their values.
C9_BadFieldCountsZero ==
    hms_result.called =>
        /\ FieldCount < 3 => hms_result.value = 0
        /\ FieldCount > 4 => hms_result.value = 0
        /\ FieldCount \in {3, 4} => hms_result.value = HmsSum

C9_Witness ==
    /\ hms_result.called
    /\ FieldCount = 4
    /\ ~AllNumeric
    /\ hms_parts.fields[1].numeric /\ FieldValue(1) > 0
    /\ hms_result.value = HmsSum
    /\ hms_result.value > 0

\* C11 as stated: when a delete is requested for an id, the id had a
\* qualifying item (not bypassed, meeting the strike condition) in at least
\* strike_threshold distinct runs, the current one included.
RunsSoFar(i) ==
    eligible[queue_items[i].id].runs
      + (IF QualifyingUpTo(queue_items, queue_items[i].id, Len(queue_items), env) # {}
         THEN 1 ELSE 0)

ItemsSoFar(i) ==
    eligible[queue_items[i].id].items
      + Cardinality(QualifyingUpTo(queue_items, queue_items[i].id, i, env))

C11_SlowInThresholdRuns ==
    Processed =>
        \A i \in Items : Requested(i) => RunsSoFar(i) >= env.strike_threshold

\* C11, amended: when a delete is requested for an id, at least
\* strike_threshold qualifying items of that id have been processed, the
\* current item included; a snapshot that lists the id k times counts k
\* times. The count of an id is the number of its qualifying items so far,
\* up to strike_threshold.
C11_SlowInThresholdItems ==
    Processed =>
        \A i \in Items :
            /\ Requested(i) => ItemsSoFar(i) >= env.strike_threshold
            /\ After(i) = Min(env.strike_threshold, ItemsSoFar(i))

C11_Witness ==
    /\ Processed
    /\ env.strike_threshold >= 2
    /\ \E i \in Items :
        /\ Requested(i)
        /\ RunsSoFar(i) < env.strike_threshold
        /\ eligible[queue_items[i].id].runs >= 1
        /\ Cardinality(Occurrences(queue_items, queue_items[i].id)) > 1

\* C12: starting from an empty strikelist every count is <= strike_threshold
\* at every moment, between the items of a run too; and an item that meets
\* the strike condition while its count is already >= strike_threshold leaves
\* the count as it is.
Capped(list) == \A id \in DOMAIN list : list[id] <= env.strike_threshold

C12_StrikeCap ==
    /\ Capped(strikelist)
    /\ Processed =>
          /\ \A k \in 1..Len(trail) : Capped(trail[k])
          /\ \A i \in Items :
                (Eligible(i) /\ Before(i) >= env.strike_threshold)
                    => After(i) = Before(i)

C12_Witness ==
    /\ Processed
    /\ env.strike_threshold >= 1
    /\ \E i \in Items :
        /\ ~Bypassed(i) /\ Eligible(i)
        /\ Before(i) = env.strike_threshold
        /\ After(i) = env.strike_threshold

\* C13: no step lowers the count of any id, neither a step of the run loop nor
\* the processing of one item, whatever the status of the item.
C13_CountsNeverDecrease ==
    /\ [][\A id \in Ids : Count(strikelist', id) >= Count(strikelist, id)]_vars
    /\ [](Processed =>
            \A i \in Items :
                \A id \in Ids : Count(trail[i + 1], id) >= Count(trail[i], id))

C13_Witness ==
    /\ Processed
    /\ \E i, j \in Items :
        /\ Status(i) = "Removed" /\ Before(i) >= 1 /\ After(i) = Before(i)
        /\ Status(j) \in {"Normal", "Pending", "Ignored"}
        /\ Before(j) >= 1 /\ After(j) = Before(j)

\* C14: after a run the ids of the strikelist are those before the run and those
\* of the snapshot; processing an item adds exactly its id, with the count 0
\* unless the item is struck at once, so also for a bypassed item; no step
\* ever takes an id out, also not one that was Removed or is no longer listed.
C14_KeySetEvolution ==
    /\ [][DOMAIN strikelist \subseteq DOMAIN strikelist']_vars
    /\ [](Processed =>
            /\ DOMAIN strikelist
                 = DOMAIN trail[1] \cup {queue_items[i].id : i \in Items}
            /\ \A i \in Items :
                /\ DOMAIN trail[i + 1] = DOMAIN trail[i] \cup {queue_items[i].id}
                /\ queue_items[i].id \notin DOMAIN trail[i]
                     => trail[i + 1][queue_items[i].id]
                          = (IF ~Bypassed(i) /\ Eligible(i) /\ env.strike_threshold > 0
                             THEN 1 ELSE 0))

C14_Witness ==
    /\ Processed
    /\ env.strike_threshold >= 1
    /\ \E i \in Items :
        /\ queue_items[i].id \notin DOMAIN trail[i]
        /\ Bypassed(i)
        /\ trail[i + 1][queue_items[i].id] = 0
    /\ \E id \in DOMAIN strikelist :
        /\ Occurrences(queue_items, id) = {}
        /\ strikelist[id] >= env.strike_threshold

\* C17 as stated: one run raises the count of each id by at most 1, also when
\* the snapshot lists the id more than once.
C17_OneStrikePerIdPerRun ==
    Processed =>
        \A id \in Ids : Count(strikelist, id) <= Count(trail[1], id) + 1

\* C17, amended: processing one item raises the count of its id by at most 1,
\* and one run raises the count of an id by at most the number of times the
\* snapshot lists it: by at most 1 for an id listed once, possibly by more
\* for an id listed more than once.
C17_OneStrikePerItem ==
    Processed =>
        /\ \A i \in Items : After(i) \in {Before(i), Before(i) + 1}
        /\ \A id \in Ids :
            /\ Count(strikelist, id) >= Count(trail[1], id)
            /\ Count(strikelist, id)
                 <= Count(trail[1], id) + Cardinality(Occurrences(queue_items, id))

C17_Witness ==
    /\ Processed
    /\ \E id \in Ids :
        /\ Cardinality(Occurrences(queue_items, id)) = 2
        /\ Count(strikelist, id) = Count(trail[1], id) + 2

\* C19: a row says Striked only if processing the item raised the count of
\* its id by exactly 1 and the count is still < strike_threshold afterwards;
\* and the count every row reports is the one the strikelist holds for the id
\* right after the item.
C19_StrikedMeansIncremented ==
    Processed =>
        \A i \in Items :
            /\ Status(i) = "Striked"
                 => After(i) = Before(i) + 1 /\ After(i) < env.strike_threshold
            /\ queue_items[i].id \in DOMAIN trail[i + 1]
            /\ Reported(i) = trail[i + 1][queue_items[i].id]

C19_Witness ==
    /\ Processed
    /\ \E i, j \in Items :
        /\ Status(i) = "Striked" /\ After(i) = 1 /\ Before(i) = 0
        /\ Status(j) = "Removed" /\ Before(j) = env.strike_threshold - 1
        /\ Reported(j) = env.strike_threshold

\* C15: processing an item leaves the entry of every other id as it is; and
\* for a snapshot of pairwise distinct ids, processing any permutation of it
\* from the same strikelist gives the same strikelist, the same set of delete
\* requests and for each item the same row, the rows in the order of the items.
Orderings(n) ==
    {f \in [1..n -> 1..n] : \A i, j \in 1..n : i # j => f[i] # f[j]}

Permuted(items, f) == [i \in 1..Len(items) |-> items[f[i]]]

DeleteIdSet(calls) == {calls[k].id : k \in 1..Len(calls)}

SameAsPermuted(r, f) ==
    /\ r.strikelist = strikelist
    /\ DeleteIdSet(r.deletes) = DeleteIdSet(deletes)
    /\ Len(r.table_contents) = Len(table_contents)
    /\ \A i \in Items : r.table_contents[i] = table_contents[f[i]]

C15_DistinctIdsIndependent ==
    (Processed /\ DistinctIds(queue_items)) =>
        /\ \A i \in Items :
            \A id \in OrderIds \ {queue_items[i].id} :
                /\ id \in DOMAIN trail[i + 1] <=> id \in DOMAIN trail[i]
                /\ Count(trail[i + 1], id) = Count(trail[i], id)
        /\ \A f \in Orderings(Len(queue_items)) :
            SameAsPermuted(process(Permuted(queue_items, f), trail[1], env,
                                   AllOk(queue_items)), f)

C15_Witness ==
    /\ Processed
    /\ Len(queue_items) = Cardinality(OrderIds)
    /\ DistinctIds(queue_items)
    /\ \E i, j \in Items :
        /\ Status(i) = "Removed" /\ Before(i) >= 1
        /\ Status(j) = "Striked" /\ After(j) = Before(j) + 1

\* C16: in aggressive mode an item with eta = 0 and size < size_threshold is
\* never Pending; whatever the time_threshold, its count is raised by 1 while
\* it is < strike_threshold, it is Removed (with a delete request) once the
\* count is >= strike_threshold and Striked before that.
AggressiveZeroEta(i) ==
    env.aggresive_strikes /\ queue_items[i].eta = 0 /\ ~Oversized(i)

C16_AggressiveZeroEtaStruck ==
    Processed =>
        \A i \in Items :
            AggressiveZeroEta(i) =>
                /\ Status(i) # "Pending"
                /\ After(i) = Min(env.strike_threshold, Before(i) + 1)
                /\ Status(i) = (IF After(i) >= env.strike_threshold
                                THEN "Removed" ELSE "Striked")
                /\ Requested(i) <=> After(i) >= env.strike_threshold

C16_Witness ==
    /\ Processed
    /\ env.time_threshold = OneHour
    /\ env.strike_threshold >= 2
    /\ \E i, j \in Items :
        /\ AggressiveZeroEta(i) /\ Status(i) = "Striked" /\ After(i) = 1
        /\ AggressiveZeroEta(j) /\ Status(j) = "Removed"
        /\ Before(j) = env.strike_threshold - 1 /\ Requested(j)

\* C18: with a time_threshold that resolves to 0 ms, an unparsable one
\* included, no row says Normal; every item that is not bypassed meets the
\* strike condition, its count is raised by 1 while it is < strike_threshold,
\* and it is Removed (with a delete request) once the count is
\* >= strike_threshold and Striked before that.
C18_ZeroThresholdStrikesAll ==
    (Processed /\ env.time_threshold \in {ZeroTime, Unparsable}) =>
        /\ TimeThresholdMs = 0
        /\ \A i \in Items :
            /\ Status(i) # "Normal"
            /\ ~Bypassed(i) =>
                /\ Eligible(i)
                /\ After(i) = Min(env.strike_threshold, Before(i) + 1)
                /\ Status(i) = (IF After(i) >= env.strike_threshold
                                THEN "Removed" ELSE "Striked")
                /\ Requested(i) <=> After(i) >= env.strike_threshold

C18_Witness ==
    /\ Processed
    /\ env.time_threshold = Unparsable
    /\ env.strike_threshold >= 2
    /\ \E i, j \in Items :
        /\ ~Bypassed(i) /\ queue_items[i].eta > 0 /\ queue_items[i].eta < 3600000
        /\ Status(i) = "Striked" /\ After(i) = 1
        /\ ~Bypassed(j) /\ Status(j) = "Removed"
        /\ Before(j) = env.strike_threshold - 1 /\ Requested(j)

====
